---- MODULE Spec2Model ----
(***************************************************************************)
(* Upload Reconciler of the cupscore backend: the Convex mutations         *)
(* uploadProductsFromJson / uploadProductsToDatabase (dataUploader.ts),    *)
(* upsertProduct (products.ts) and downloadAndStoreImage, over the         *)
(* products table of schema.ts.                                            *)
(*                                                                         *)
(* JavaScript values are modelled as strings: Undefined is an absent       *)
(* field / the value undefined, Null is JSON null.  Timestamps are         *)
(* naturals read from clock (Date.now()); a removedAt of 0 is an absent    *)
(* removedAt field.  A mutation that throws is rolled back by the store,   *)
(* so it leaves products and scheduled as they were.                       *)
(*                                                                         *)
(* SpecCli is the upload-products command line over the same store.        *)
(* SpecExtract is one extraction pass of a crawler over a rendered page,   *)
(* SpecMega one run of the Mega MGC Coffee crawler over a site.            *)
(* SpecRetry is that run with failing requests, SpecClick the Starbucks   *)
(* click-through crawler, SpecRunner the crawler test suites, SpecResolve  *)
(* the choice of the latest crawler output file, and SpecRace two          *)
(* overlapping runs of uploadProductsFromJson.                             *)
(***************************************************************************)
EXTENDS Integers, Sequences, FiniteSets, TLC

VARIABLES cafes, products, scheduled, clock, call, result, cli

\* The crawlers: one extraction pass over a rendered page (extraction), and
\* one run of the Mega MGC Coffee crawler over a site.
VARIABLES extraction, site, pageIndex, currentPage, visited, stopReason,
          dataset, queue, pc

uploaderVars == <<cafes, products, scheduled, clock, call, result, cli>>

crawlerVars ==
  <<extraction, site, pageIndex, currentPage, visited, stopReason, dataset,
    queue, pc>>

\* The crawler-outputs directory and the file an upload tool has resolved.
VARIABLES outputDir, resolved

resolveVars == <<outputDir, resolved>>

\* The tab of the click-through crawler and the state of its loop.
VARIABLES browser, clickLoop

clickVars == <<browser, clickLoop>>

\* The crawler test suite and the crawlers that are running.
VARIABLES suite, running

runnerVars == <<suite, running>>

\* The retry counts of the requests of a crawl and the requests that have
\* failed for good.
VARIABLES retry

retryVars == <<retry>>

\* The runs of uploadProductsFromJson that clients have started and the
\* store as it was before any of them.
VARIABLES runs, base

raceVars == <<runs, base>>

toolVars == <<resolveVars, clickVars, runnerVars, retryVars, raceVars>>

vars == <<uploaderVars, crawlerVars, toolVars>>

\* ---------------------------------------------------------------- bounds
MaxBatch == 2
MaxClock == 3

\* ---------------------------------------------------------------- values
\* The elements of a sequence.
Range(seq) == {seq[i] : i \in 1..Len(seq)}

Undefined == "undefined"
Null == "null"

CafeIds == {"c1", "c2"}
Slugs == CafeIds \cup {"nocafe"}
ExternalIds == {"e1", "e2"}
StorageIds == {"s1"}

\* `x ?? undefined`
Nullish(x) == IF x = Null THEN Undefined ELSE x

\* JavaScript truthiness of a string-or-absent value
Truthy(x) == x \notin {Undefined, Null, ""}

\* A crawler record as read from the JSON file (CrawlerProduct).
BaseRecord(e) ==
  [kind |-> "object",
   name |-> "n1", nameEn |-> "en1", description |-> "d1",
   externalCategory |-> "xc1", externalId |-> e,
   externalImageUrl |-> "img1", externalUrl |-> "url1",
   price |-> "4500", category |-> "cat1", imageStorageId |-> Undefined]

\* JSON null as an element of the products array (v.array(v.any())).
NullRecord == [BaseRecord(Undefined) EXCEPT !.kind = "null", !.name = Undefined]

Records ==
  { BaseRecord("e1"),
    [BaseRecord("e1") EXCEPT !.price = Null],
    BaseRecord("e2"),
    [BaseRecord("e2") EXCEPT !.category = Null],
    NullRecord }

ObjectRecords == {r \in Records : r.kind = "object"}

Batches == UNION {[1..n -> Records] : n \in 0..MaxBatch}

\* ------------------------------------------------- uploadProductsToDatabase
\* The argument object of the runMutation(api.products.upsertProduct, ...)
\* call: the record spread, then cafeId, the `?? undefined` fields and the
\* downloadImages flag.
BuildArgs(product, cafeId, downloadImages) ==
  [cafeId |-> cafeId,
   name |-> product.name,
   nameEn |-> Nullish(product.nameEn),
   category |-> Nullish(product.category),
   externalCategory |-> Nullish(product.externalCategory),
   description |-> Nullish(product.description),
   externalImageUrl |-> Nullish(product.externalImageUrl),
   imageStorageId |-> product.imageStorageId,
   externalId |-> product.externalId,
   externalUrl |-> product.externalUrl,
   price |-> Nullish(product.price),
   downloadImages |-> downloadImages]

\* The args validator of upsertProduct: name, category, externalId and
\* externalUrl are v.string(), the other fields are v.optional.
ArgsValid(args) ==
  /\ args.name \notin {Undefined, Null}
  /\ args.category \notin {Undefined, Null}
  /\ args.externalId \notin {Undefined, Null}
  /\ args.externalUrl \notin {Undefined, Null}

\* ------------------------------------------------------------ upsertProduct
\* withIndex('by_external_id', q => q.eq('externalId', ...)).first():
\* the position of the oldest document with that externalId, 0 for none.
\* (Mutant: the index is queried with the wrong field, so no document is
\* ever found by its externalId.)
FirstByName(store, externalId) ==
  LET hits == {i \in 1..Len(store) : store[i].name = externalId}
  IN IF hits = {} THEN 0 ELSE CHOOSE i \in hits : \A j \in hits : i <= j

FirstByExternalId(store, externalId) ==
  LET hits == {i \in 1..Len(store) : store[i].externalId = externalId}
  IN IF hits = {} THEN 0 ELSE CHOOSE i \in hits : \A j \in hits : i <= j

HasChanges(existing, args) ==
  \/ existing.name # args.name
  \/ existing.category # args.category
  \/ existing.price # args.price
  \/ existing.description # args.description
  \/ existing.externalImageUrl # args.externalImageUrl
  \/ existing.imageStorageId # args.imageStorageId

\* A field of a db.patch: an argument that is absent leaves the stored
\* field as it is.
PatchField(old, new) == IF new = Undefined THEN old ELSE new

\* (Mutant: the patch also marks the product active, leaving removedAt.)
PatchDocActivating(existing, args, now) ==
  [existing EXCEPT
     !.cafeId = args.cafeId,
     !.name = args.name,
     !.nameEn = PatchField(@, args.nameEn),
     !.category = args.category,
     !.externalCategory = PatchField(@, args.externalCategory),
     !.description = PatchField(@, args.description),
     !.externalImageUrl = PatchField(@, args.externalImageUrl),
     !.imageStorageId = PatchField(@, args.imageStorageId),
     !.externalId = args.externalId,
     !.externalUrl = args.externalUrl,
     !.price = PatchField(@, args.price),
     !.isActive = TRUE,
     !.updatedAt = now]

\* (Mutant: the patch stamps addedAt as the insert does.)
PatchDocReAdded(existing, args, now) ==
  [existing EXCEPT
     !.cafeId = args.cafeId,
     !.name = args.name,
     !.nameEn = PatchField(@, args.nameEn),
     !.category = args.category,
     !.externalCategory = PatchField(@, args.externalCategory),
     !.description = PatchField(@, args.description),
     !.externalImageUrl = PatchField(@, args.externalImageUrl),
     !.imageStorageId = PatchField(@, args.imageStorageId),
     !.externalId = args.externalId,
     !.externalUrl = args.externalUrl,
     !.price = PatchField(@, args.price),
     !.addedAt = now,
     !.updatedAt = now]

\* (Mutant: the patch writes the imageStorageId of the arguments even when
\* it is absent.)
PatchDocOverwritingImage(existing, args, now) ==
  [existing EXCEPT
     !.cafeId = args.cafeId,
     !.name = args.name,
     !.nameEn = PatchField(@, args.nameEn),
     !.category = args.category,
     !.externalCategory = PatchField(@, args.externalCategory),
     !.description = PatchField(@, args.description),
     !.externalImageUrl = PatchField(@, args.externalImageUrl),
     !.imageStorageId = args.imageStorageId,
     !.externalId = args.externalId,
     !.externalUrl = args.externalUrl,
     !.price = PatchField(@, args.price),
     !.updatedAt = now]

\* ctx.db.patch(existing._id, {...args, updatedAt: now}) with the
\* downloadImages flag removed.
PatchDoc(existing, args, now) ==
  [existing EXCEPT
     !.cafeId = args.cafeId,
     !.name = args.name,
     !.nameEn = PatchField(@, args.nameEn),
     !.category = args.category,
     !.externalCategory = PatchField(@, args.externalCategory),
     !.description = PatchField(@, args.description),
     !.externalImageUrl = PatchField(@, args.externalImageUrl),
     !.imageStorageId = PatchField(@, args.imageStorageId),
     !.externalId = args.externalId,
     !.externalUrl = args.externalUrl,
     !.price = PatchField(@, args.price),
     !.updatedAt = now]

\* The isActive value of a freshly inserted product.
InsertIsActive == TRUE

\* ctx.db.insert('products', {...args, addedAt: now, updatedAt: now})
InsertDoc(args, now) ==
  [cafeId |-> args.cafeId,
   name |-> args.name,
   nameEn |-> args.nameEn,
   category |-> args.category,
   externalCategory |-> args.externalCategory,
   description |-> args.description,
   externalImageUrl |-> args.externalImageUrl,
   imageStorageId |-> args.imageStorageId,
   externalId |-> args.externalId,
   externalUrl |-> args.externalUrl,
   price |-> args.price,
   isActive |-> InsertIsActive,
   addedAt |-> now,
   updatedAt |-> now,
   removedAt |-> 0]

\* A ctx.scheduler.runAfter(0, downloadAndStoreImageAction, ...) job.
ImageJob(imageUrl, productId) == [imageUrl |-> imageUrl, productId |-> productId]

\* The handler of upsertProduct; the result carries the new table and
\* scheduler queue next to the returned {action, id}.
UpsertProduct(store, sched, args, now) ==
  LET ex == FirstByExternalId(store, args.externalId) IN
  IF ex # 0
  THEN IF HasChanges(store[ex], args)
       THEN [products |-> [store EXCEPT ![ex] = PatchDoc(@, args, now)],
             scheduled |->
               IF /\ args.downloadImages
                  /\ Truthy(args.externalImageUrl)
                  /\ ~Truthy(store[ex].imageStorageId)
               THEN Append(sched, ImageJob(args.externalImageUrl, ex))
               ELSE sched,
             action |-> "updated", id |-> ex]
       ELSE [products |-> store, scheduled |-> sched,
             action |-> "unchanged", id |-> ex]
  ELSE [products |-> Append(store, InsertDoc(args, now)),
        scheduled |->
          IF args.downloadImages /\ Truthy(args.externalImageUrl)
          THEN Append(sched, ImageJob(args.externalImageUrl, Len(store) + 1))
          ELSE sched,
        action |-> "created", id |-> Len(store) + 1]

\* The result counters, as initialised by uploadProductsFromJson.
EmptyResults ==
  [status |-> "ok", processed |-> 0, created |-> 0, updated |-> 0,
   unchanged |-> 0, errors |-> <<>>, skipped |-> 0, removed |-> 0,
   reactivated |-> 0, removedProducts |-> <<>>, reactivatedProducts |-> <<>>,
   samples |-> <<>>]

\* The result of a call that threw: nothing is returned to the caller.
ThrownResults == [EmptyResults EXCEPT !.status = "thrown"]

\* Before the first call.
NoResults == [EmptyResults EXCEPT !.status = "none"]

\* The for loop of uploadProductsToDatabase from record i on.  st carries
\* the table, the scheduler queue, the results object and thrown, which is
\* TRUE once an exception has left the loop.  For a null element the
\* property reads on product throw in the try block and again in the catch
\* block (product.name), so the exception leaves the function.
RECURSIVE UploadLoop(_, _, _, _, _, _)
UploadLoop(st, batch, i, cafeId, downloadImages, now) ==
  IF i > Len(batch) \/ st.thrown THEN st
  ELSE
    LET product == batch[i] IN
    IF product.kind = "null"
    THEN [st EXCEPT !.thrown = TRUE]
    ELSE
      LET args == BuildArgs(product, cafeId, downloadImages) IN
      IF ~ArgsValid(args)
      THEN UploadLoop([st EXCEPT !.results.errors = Append(@, product.name)],
                      batch, i + 1, cafeId, downloadImages, now)
      ELSE
        LET r == UpsertProduct(st.products, st.scheduled, args, now) IN
        UploadLoop(
          [st EXCEPT
             !.products = r.products,
             !.scheduled = r.scheduled,
             !.results.created = IF r.action = "created" THEN @ + 1 ELSE @,
             !.results.updated = IF r.action = "updated" THEN @ + 1 ELSE @,
             !.results.unchanged = IF r.action = "unchanged" THEN @ + 1 ELSE @],
          batch, i + 1, cafeId, downloadImages, now)

uploadProductsToDatabase(store, sched, batch, cafeId, results, downloadImages, now) ==
  UploadLoop([products |-> store, scheduled |-> sched, results |-> results,
              thrown |-> FALSE],
             batch, 1, cafeId, downloadImages, now)

\* ---------------------------------------------------- markProductsAsRemoved
\* The positions of the café's active products that the batch lacks, and of
\* its inactive products that the batch holds.
ToRemove(store, cafeId, currentExternalIds) ==
  {i \in 1..Len(store) :
     /\ store[i].cafeId = cafeId
     /\ store[i].isActive
     /\ store[i].externalId \notin currentExternalIds}

ToReactivate(store, cafeId, currentExternalIds) ==
  {i \in 1..Len(store) :
     /\ store[i].cafeId = cafeId
     /\ ~store[i].isActive
     /\ store[i].externalId \in currentExternalIds}

\* The members of a set of positions, in table order.
RECURSIVE InOrder(_, _)
InOrder(S, n) ==
  IF n = 0 THEN <<>>
  ELSE IF n \in S THEN Append(InOrder(S, n - 1), n) ELSE InOrder(S, n - 1)

\* (Mutant: a reactivated product keeps its old updatedAt.)
markProductsAsRemovedStale(store, cafeId, currentExternalIds, now) ==
  LET rem == ToRemove(store, cafeId, currentExternalIds)
      rea == ToReactivate(store, cafeId, currentExternalIds)
  IN [products |->
        [i \in 1..Len(store) |->
           IF i \in rem
           THEN [store[i] EXCEPT !.isActive = FALSE, !.removedAt = now]
           ELSE IF i \in rea
           THEN [store[i] EXCEPT !.isActive = TRUE, !.removedAt = 0]
           ELSE store[i]],
      removed |-> Cardinality(rem),
      reactivated |-> Cardinality(rea),
      removedProducts |-> InOrder(rem, Len(store)),
      reactivatedProducts |-> InOrder(rea, Len(store))]

markProductsAsRemoved(store, cafeId, currentExternalIds, now) ==
  LET rem == ToRemove(store, cafeId, currentExternalIds)
      rea == ToReactivate(store, cafeId, currentExternalIds)
  IN [products |->
        [i \in 1..Len(store) |->
           IF i \in rem
           THEN [store[i] EXCEPT !.isActive = FALSE, !.removedAt = now]
           ELSE IF i \in rea
           THEN [store[i] EXCEPT !.isActive = TRUE, !.removedAt = 0,
                                 !.updatedAt = now]
           ELSE store[i]],
      removed |-> Cardinality(rem),
      reactivated |-> Cardinality(rea),
      removedProducts |-> InOrder(rem, Len(store)),
      reactivatedProducts |-> InOrder(rea, Len(store))]

\* ---------------------------------------------------- uploadProductsFromJson
\* (Mutant: a café is taken to exist for every slug, as with the earlier
\* findOrCreateCafe.)
getBySlugOrCreate(cafeSet, slug) == slug

\* cafes.getBySlug: the café document of the slug, Null for none.  A café's
\* _id stands for its slug.
getBySlug(cafeSet, slug) == IF slug \in cafeSet THEN slug ELSE Null

\* products.slice(0, 3)
Samples(batch) == SubSeq(batch, 1, IF Len(batch) < 3 THEN Len(batch) ELSE 3)

\* products.map(p => p.externalId); reading externalId of a null element
\* throws.
MapThrows(batch) == \E i \in 1..Len(batch) : batch[i].kind = "null"

\* products.map(p => p.externalId) as the set markProductsAsRemoved tests
\* membership in.  (Mutant: the names are collected instead of the ids.)
CurrentExternalIdsByName(batch) == {batch[i].name : i \in 1..Len(batch)}

CurrentExternalIds(batch) == {batch[i].externalId : i \in 1..Len(batch)}

\* Lines 110-150 of the handler: the upload loop, the removal pass and the
\* returned summary.  An exception rolls the whole mutation back.
RunUpload(store, sched, batch, cafe, downloadImages, now) ==
  LET up == uploadProductsToDatabase(store, sched, batch, cafe, EmptyResults,
                                     downloadImages, now)
  IN
  IF up.thrown \/ MapThrows(batch)
  THEN [products |-> store, scheduled |-> sched, result |-> ThrownResults]
  ELSE
    LET removal == markProductsAsRemoved(up.products, cafe,
                                         CurrentExternalIds(batch), now)
    IN [products |-> removal.products,
        scheduled |-> up.scheduled,
        result |-> [up.results EXCEPT
                      !.removed = removal.removed,
                      !.reactivated = removal.reactivated,
                      !.removedProducts = removal.removedProducts,
                      !.reactivatedProducts = removal.reactivatedProducts]]

\* (Mutant: the dryRun test is missing, the upload runs in a dry run too.)
uploadProductsFromJsonNoDryRun(cafeSet, store, sched, batch, cafeSlug, dryRun, downloadImages, now) ==
  LET cafe == getBySlug(cafeSet, cafeSlug) IN
  IF cafe = Null
  THEN [products |-> store, scheduled |-> sched, result |-> ThrownResults]
  ELSE RunUpload(store, sched, batch, cafe, downloadImages, now)

\* The handler: the new table and scheduler queue, and the value returned.
uploadProductsFromJson(cafeSet, store, sched, batch, cafeSlug, dryRun, downloadImages, now) ==
  LET cafe == getBySlug(cafeSet, cafeSlug) IN
  IF cafe = Null
  THEN [products |-> store, scheduled |-> sched, result |-> ThrownResults]
  ELSE IF dryRun
  THEN [products |-> store, scheduled |-> sched,
        result |-> [EmptyResults EXCEPT !.samples = Samples(batch)]]
  ELSE RunUpload(store, sched, batch, cafe, downloadImages, now)

\* ------------------------------------------------------------------ actions
NoCall ==
  [op |-> "none", cafeSlug |-> Undefined, products |-> <<>>, dryRun |-> FALSE,
   downloadImages |-> FALSE, productId |-> 0]

\* No upload CLI process has run: no input file, and -1 for no exit code.
NoCli == [file |-> "none", exitCode |-> -1]

\* No extraction pass has run.
NoExtraction ==
  [crawler |-> "none", page |-> <<>>, categoryName |-> "", done |-> FALSE,
   products |-> <<>>, usedSelector |-> ""]

\* No crawl is running.
NoSite == [pages |-> <<>>, tail |-> "absent", categories |-> <<>>,
           loadMore |-> "none"]

\* The store before the first upload: two cafes, no product.
UploaderInit ==
  /\ cli = NoCli
  /\ cafes = CafeIds
  /\ products = <<>>
  /\ scheduled = <<>>
  /\ clock = 1
  /\ call = NoCall
  /\ result = NoResults

\* No crawler process exists.
CrawlerIdle ==
  /\ extraction = NoExtraction
  /\ site = NoSite
  /\ pageIndex = 0
  /\ currentPage = 0
  /\ visited = <<>>
  /\ stopReason = ""
  /\ dataset = <<>>
  /\ queue = <<>>
  /\ pc = "idle"

\* No upload tool has resolved a file.
NoResolved == [tool |-> "none", cafe |-> "none", file |-> "none"]

ResolveIdle ==
  /\ outputDir = {}
  /\ resolved = NoResolved

\* The click-through crawler is not running.
NoBrowser == [history |-> <<>>, at |-> 0]

NoClickLoop ==
  [links |-> <<>>, i |-> 0, products |-> <<>>, trace |-> <<>>, pc |-> "idle"]

ClickIdle ==
  /\ browser = NoBrowser
  /\ clickLoop = NoClickLoop

\* No test suite is running.
NoSuite == [runner |-> "none", index |-> 0, pc |-> "idle", results |-> <<>>]

RunnerIdle ==
  /\ suite = NoSuite
  /\ running = {}

\* No request has been retried.
NoRetry == [retryCount |-> <<>>, failed |-> {}]

RetryIdle == retry = NoRetry

\* No overlapping runs are modelled.
NoBase == [products |-> <<>>, scheduled |-> <<>>, clock |-> 0]

RaceIdle ==
  /\ runs = <<>>
  /\ base = NoBase

ToolsIdle ==
  ResolveIdle /\ ClickIdle /\ RunnerIdle /\ RetryIdle /\ RaceIdle

Init == UploaderInit /\ CrawlerIdle /\ ToolsIdle

\* One run of the mutation uploadProductsFromJson.
RunMutation(batch, cafeSlug, dryRun, downloadImages) ==
  LET r == uploadProductsFromJson(cafes, products, scheduled, batch, cafeSlug,
                                  dryRun, downloadImages, clock)
  IN /\ clock <= MaxClock
     /\ products' = r.products
     /\ scheduled' = r.scheduled
     /\ result' = r.result
     /\ call' = [NoCall EXCEPT !.op = "uploadProductsFromJson",
                               !.cafeSlug = cafeSlug, !.products = batch,
                               !.dryRun = dryRun,
                               !.downloadImages = downloadImages]
     /\ clock' = clock + 1
     /\ UNCHANGED <<cafes, crawlerVars, toolVars>>

\* A client calls the mutation uploadProductsFromJson.
Reconcile(batch, cafeSlug, dryRun, downloadImages) ==
  /\ call.op = "none"
  /\ RunMutation(batch, cafeSlug, dryRun, downloadImages)
  /\ UNCHANGED cli

\* A client calls the mutation upsertProduct with the arguments that the
\* uploader builds for one record.
Upsert(product, cafeId, downloadImages) ==
  LET args == BuildArgs(product, cafeId, downloadImages)
      r == UpsertProduct(products, scheduled, args, clock)
  IN /\ call.op = "none"
     /\ clock <= MaxClock
     /\ IF ArgsValid(args)
        THEN /\ products' = r.products
             /\ scheduled' = r.scheduled
             /\ result' = [EmptyResults EXCEPT
                  !.created = IF r.action = "created" THEN 1 ELSE 0,
                  !.updated = IF r.action = "updated" THEN 1 ELSE 0,
                  !.unchanged = IF r.action = "unchanged" THEN 1 ELSE 0]
             /\ call' = [NoCall EXCEPT !.op = "upsertProduct",
                           !.cafeSlug = cafeId, !.products = <<product>>,
                           !.downloadImages = downloadImages,
                           !.productId = r.id]
        ELSE /\ UNCHANGED <<products, scheduled>>
             /\ result' = ThrownResults
             /\ call' = [NoCall EXCEPT !.op = "upsertProduct",
                           !.cafeSlug = cafeId, !.products = <<product>>,
                           !.downloadImages = downloadImages]
     /\ clock' = clock + 1
     /\ UNCHANGED <<cafes, cli, crawlerVars, toolVars>>

\* (Mutant: the storage id is patched in before the fetches are checked.)
downloadAndStoreImageEager(store, productId, storageId, fetched, now) ==
  [products |-> [store EXCEPT ![productId].imageStorageId = storageId,
                              ![productId].updatedAt = now],
   success |-> fetched]

\* The handler of downloadAndStoreImage.  fetched says whether the fetch of
\* the image and the upload to storage both succeed; a failure of either
\* throws before the patch and is caught, returning success: false.
downloadAndStoreImage(store, productId, storageId, fetched, now) ==
  IF fetched
  THEN [products |-> [store EXCEPT ![productId].imageStorageId = storageId,
                                   ![productId].updatedAt = now],
        success |-> TRUE]
  ELSE [products |-> store, success |-> FALSE]

\* A client calls the mutation downloadAndStoreImage.
DownloadAndStoreImage(productId, storageId, fetched) ==
  LET r == downloadAndStoreImage(products, productId, storageId, fetched, clock)
  IN /\ call.op = "none"
     /\ clock <= MaxClock
     /\ productId \in 1..Len(products)
     /\ products' = r.products
     /\ result' = [EmptyResults EXCEPT
                     !.status = IF r.success THEN "ok" ELSE "failed"]
     /\ call' = [NoCall EXCEPT !.op = "downloadAndStoreImage",
                               !.productId = productId]
     /\ clock' = clock + 1
     /\ UNCHANGED <<cafes, scheduled, cli, crawlerVars, toolVars>>

\* The client has read the returned value; no call is outstanding.
Deliver ==
  /\ call.op # "none"
  /\ call' = NoCall
  /\ result' = NoResults
  /\ cli' = NoCli
  /\ UNCHANGED <<cafes, products, scheduled, clock, crawlerVars, toolVars>>

\* The client runs the upload it has just run once more, on the same file.
Rerun ==
  /\ call.op = "uploadProductsFromJson"
  /\ RunMutation(call.products, call.cafeSlug, call.dryRun, call.downloadImages)
  /\ UNCHANGED cli

\* ------------------------------------------------------ upload-products CLI
\* The file named by --file: absent, unreadable, not JSON, JSON that is not
\* an array, or a JSON array of records.
Files ==
  [kind : {"missing", "unreadable", "invalidjson", "notarray"},
   products : {<<>>}]
    \cup [kind : {"array"}, products : Batches]

\* resolveFilePath and readAndValidateFile throw for every file but an array.
FileThrows(file) == file.kind # "array"

\* main with the upload command: uploadFromFile reads the file and calls
\* the mutation (downloadImages is not passed); an exception reaches the
\* catch of main, which exits with 1; otherwise main returns.
main(cafeSet, store, sched, file, cafeSlug, dryRun, now) ==
  IF FileThrows(file)
  THEN [products |-> store, scheduled |-> sched, result |-> ThrownResults,
        exitCode |-> 1]
  ELSE
    LET r == uploadProductsFromJson(cafeSet, store, sched, file.products,
                                    cafeSlug, dryRun, FALSE, now)
    IN [products |-> r.products, scheduled |-> r.scheduled,
        result |-> r.result,
        exitCode |-> IF r.result.status = "thrown" THEN 1 ELSE 0]

\* One run of the upload CLI.
Main(file, cafeSlug, dryRun) ==
  LET r == main(cafes, products, scheduled, file, cafeSlug, dryRun, clock)
  IN /\ call.op = "none"
     /\ clock <= MaxClock
     /\ products' = r.products
     /\ scheduled' = r.scheduled
     /\ result' = r.result
     /\ call' = [NoCall EXCEPT !.op = "main", !.cafeSlug = cafeSlug,
                               !.products = file.products, !.dryRun = dryRun]
     /\ cli' = [file |-> file.kind, exitCode |-> r.exitCode]
     /\ clock' = clock + 1
     /\ UNCHANGED <<cafes, crawlerVars, toolVars>>

NextCli ==
  \/ \E file \in Files, cafeSlug \in Slugs, dryRun \in BOOLEAN :
       Main(file, cafeSlug, dryRun)
  \/ Deliver

SpecCli == Init /\ [][NextCli]_vars

Next ==
  \/ \E batch \in Batches, cafeSlug \in Slugs, dryRun \in BOOLEAN,
        downloadImages \in BOOLEAN :
       Reconcile(batch, cafeSlug, dryRun, downloadImages)
  \/ \E product \in ObjectRecords, cafeId \in CafeIds, downloadImages \in BOOLEAN :
       Upsert(product, cafeId, downloadImages)
  \/ \E productId \in 1..Len(products), storageId \in StorageIds,
        fetched \in BOOLEAN :
       DownloadAndStoreImage(productId, storageId, fetched)
  \/ Rerun
  \/ Deliver

Spec == Init /\ [][Next]_vars

\* ---------------------------------------------------------------- crawlers
\* A rendered page is modelled by what the selectors find in it: matches maps
\* a CSS selector to the sequence of elements it matches, in DOM order, and
\* links is the sequence of the a elements of the page.  An element carries
\* the text its name selector yields (already trimmed) and the src of its
\* first img.  The five Korean substrings of the Starbucks denylist
\* (kategori, bunryu, bogi, tema, jeonche) are written as ASCII tags.
MaxContainers == 2

MaxNameLength == 100
MaxLinkTextLength == 50
MaxItems == 50
MaxItemsToProcess == 20

\* String.prototype.includes
Includes(s, t) ==
  \E i \in 1..(Len(s) - Len(t) + 1) : SubSeq(s, i, i + Len(t) - 1) = t

RECURSIVE Concat(_)
Concat(seqs) ==
  IF seqs = <<>> THEN <<>> ELSE Head(seqs) \o Concat(Tail(seqs))

Min(a, b) == IF a < b THEN a ELSE b

Fifty == "01234567890123456789012345678901234567890123456789"

\* A text of 101 characters.
LongName == Fifty \o Fifty \o "x"

ProductNames == {"", "ab", "Latte", "[bogi] all menu", LongName}

Elements == [name : ProductNames, image : {"i1", "i2"}]

Links == [href : {"/menu/product/1", "/store"}, text : {"", "Latte", "[bogi] all menu"}]

SeqsUpTo(S, n) == UNION {[1..k -> S] : k \in 0..n}

\* The pages given to a crawler with the selector list selectors: its first
\* selector matches up to MaxContainers elements, its second up to one, the
\* others none.
PagesFor(selectors, linkSeqs) ==
  {[matches |-> [s \in Range(selectors) |->
                   IF s = selectors[1] THEN a
                   ELSE IF s = selectors[2] THEN b ELSE <<>>],
    links |-> l] :
     a \in SeqsUpTo(Elements, MaxContainers), b \in SeqsUpTo(Elements, 1),
     l \in linkSeqs}

\* The index of the first selector of the list that matches an element of
\* the page, 0 when none does.
FirstMatch(selectors, page) ==
  LET hits == {k \in 1..Len(selectors) : Len(page.matches[selectors[k]]) > 0}
  IN IF hits = {} THEN 0 ELSE CHOOSE k \in hits : \A j \in hits : k <= j

\* ---- Mega MGC Coffee crawler
containerSelectors ==
  <<".cont_gallery_list .inner_modal_open", ".cont_gallery_list ul li",
    ".product-item", ".menu-item", ".item-box", "li[data-id]",
    ".gallery-item">>

MegaMenuUrl == "https://www.mega-mgccoffee.com/menu/"

\* extractProductData of the Mega crawler: the product of a container, as a
\* sequence of one product, or the empty sequence for the null it returns
\* when the container has no name.
extractProductData(container, categoryName) ==
  IF container.name # "" /\ Len(container.name) > 0
  THEN <<[name |-> container.name, nameEn |-> Null, description |-> Null,
          price |-> Null, externalImageUrl |-> container.image,
          category |-> "Drinks", externalCategory |-> categoryName,
          externalId |-> "mega_" \o container.name, externalUrl |-> ""]>>
  ELSE <<>>

\* extractPageProducts of the Mega crawler.
extractPageProducts(page, categoryName, url) ==
  LET k == FirstMatch(containerSelectors, page)
  IN IF k = 0
     THEN [products |-> <<>>, usedSelector |-> "none"]
     ELSE
       LET productContainers == page.matches[containerSelectors[k]]
           productResults ==
             [i \in 1..Len(productContainers) |->
                extractProductData(productContainers[i], categoryName)]
           validProducts == Concat(productResults)
       IN [products |-> [i \in 1..Len(validProducts) |->
                           [validProducts[i] EXCEPT !.externalUrl = url]],
           usedSelector |-> containerSelectors[k]]

\* ---- Starbucks listing crawler (starbucks-crawler.ts)
possibleSelectors ==
  <<"dl.product_list dd", ".product_list dd", ".product_list li",
    ".menu_list li", "li[data-name]", ".product-item", ".menu-item",
    "a[href*=product]", "div[class*=product]", "div[class*=menu]">>

StarbucksDenylist == {"[kategori]", "[bunryu]", "[bogi]", "[tema]", "[jeonche]"}

\* The name test of the selector loop.
StarbucksNameOk(name) ==
  /\ name # ""
  /\ Len(name) > 2
  /\ Len(name) < MaxNameLength
  /\ \A t \in StarbucksDenylist : ~Includes(name, t)

\* The items pushed by elements.forEach for the elements of one selector.
StarbucksItems(elements) ==
  LET ok == SelectSeq(elements, LAMBDA e : StarbucksNameOk(e.name))
  IN [i \in 1..Len(ok) |->
        [name |-> ok[i].name,
         price |-> "Price not available on listing page",
         image |-> ok[i].image, category |-> "Drinks"]]

\* The loop over possibleSelectors from selector k on: the first selector
\* whose elements give at least one item ends the loop.
RECURSIVE SelectorLoop(_, _)
SelectorLoop(page, k) ==
  IF k > Len(possibleSelectors)
  THEN [items |-> <<>>, foundProducts |-> FALSE, usedSelector |-> "none"]
  ELSE
    LET elements == page.matches[possibleSelectors[k]]
        items == IF Len(elements) > 0 THEN StarbucksItems(elements) ELSE <<>>
    IN IF Len(items) > 0
       THEN [items |-> items, foundProducts |-> TRUE,
             usedSelector |-> possibleSelectors[k]]
       ELSE SelectorLoop(page, k + 1)

\* The items pushed for the links of the page when no selector gave a product.
LinkItems(links) ==
  LET ok == SelectSeq(links, LAMBDA l :
              /\ l.href # "" /\ Includes(l.href, "product")
              /\ l.text # "" /\ Len(l.text) > 2
              /\ Len(l.text) < MaxLinkTextLength)
  IN [i \in 1..Len(ok) |->
        [name |-> ok[i].text, price |-> "Price not available",
         image |-> "", category |-> "Drinks"]]

\* The page.evaluate callback of requestHandler.
requestHandler(page) ==
  LET r == SelectorLoop(page, 1)
      items == IF r.foundProducts THEN r.items ELSE LinkItems(page.links)
  IN [products |-> SubSeq(items, 1, Min(Len(items), MaxItems)),
      usedSelector |-> r.usedSelector]

\* ---- Paik's Coffee crawler
menuItemSelector == ".menu_list > ul > li"

PaikMenuUrl == "https://paikdabang.com/menu/menu_coffee/"

\* findMenuItems: waitForSelector throws when nothing matches, giving no item.
findMenuItems(page) ==
  IF Len(page.matches[menuItemSelector]) > 0
  THEN [items |-> page.matches[menuItemSelector], selector |-> menuItemSelector]
  ELSE [items |-> <<>>, selector |-> ""]

createProduct(name, imageUrl, description, category, pageUrl) ==
  [name |-> name, nameEn |-> Null,
   description |-> IF description = "" THEN Null ELSE description,
   price |-> Null, externalImageUrl |-> imageUrl, category |-> category,
   externalCategory |-> category,
   externalId |-> "paik_" \o category \o "_" \o name,
   externalUrl |-> pageUrl]

isValidProductName(name) ==
  /\ name # ""
  /\ Len(name) > 2
  /\ ~Includes(name, "undefined")
  /\ ~Includes(name, "null")

\* The for loop of extractProductsFromPage from item i on.
RECURSIVE MenuItemLoop(_, _, _, _, _, _)
MenuItemLoop(acc, menuItems, i, maxItemsToProcess, categoryName, url) ==
  IF i > maxItemsToProcess THEN acc
  ELSE
    LET product == createProduct(menuItems[i].name, menuItems[i].image, "",
                                 categoryName, url)
        push == /\ isValidProductName(menuItems[i].name)
                /\ ~\E j \in 1..Len(acc) : acc[j].externalId = product.externalId
    IN MenuItemLoop(IF push THEN Append(acc, product) ELSE acc, menuItems,
                    i + 1, maxItemsToProcess, categoryName, url)

extractProductsFromPage(page, categoryName, url) ==
  LET found == findMenuItems(page)
  IN IF Len(found.items) = 0
     THEN [products |-> <<>>, usedSelector |-> "none"]
     ELSE [products |->
             MenuItemLoop(<<>>, found.items, 1,
                          Min(Len(found.items), MaxItemsToProcess),
                          categoryName, url),
           usedSelector |-> found.selector]

\* ---- one extraction pass
LinkSeqs == SeqsUpTo(Links, 1)

PaikPages ==
  {[matches |-> [s \in {menuItemSelector} |-> a], links |-> <<>>] :
     a \in SeqsUpTo(Elements, MaxContainers)}

ExtractionInputs ==
  {[NoExtraction EXCEPT !.crawler = "mega", !.page = p,
                        !.categoryName = "All Menu"] :
     p \in PagesFor(containerSelectors, {<<>>})}
  \cup {[NoExtraction EXCEPT !.crawler = "starbucks", !.page = p] :
          p \in PagesFor(possibleSelectors, LinkSeqs)}
  \cup {[NoExtraction EXCEPT !.crawler = "paik", !.page = p,
                             !.categoryName = "coffee"] : p \in PaikPages}

\* A crawler has rendered a page and is about to extract from it.
InitExtract ==
  /\ UploaderInit
  /\ ToolsIdle
  /\ extraction \in ExtractionInputs
  /\ site = NoSite
  /\ pageIndex = 0
  /\ currentPage = 0
  /\ visited = <<>>
  /\ stopReason = ""
  /\ dataset = <<>>
  /\ queue = <<>>
  /\ pc = "idle"

Extracted(r) ==
  /\ ~extraction.done
  /\ extraction' = [extraction EXCEPT !.done = TRUE,
                                      !.products = r.products,
                                      !.usedSelector = r.usedSelector]
  /\ UNCHANGED <<uploaderVars, toolVars, site, pageIndex, currentPage, visited,
                 stopReason, dataset, queue, pc>>

\* The Mega crawler extracts the products of the page.
ExtractPageProducts ==
  /\ extraction.crawler = "mega"
  /\ Extracted(extractPageProducts(extraction.page, extraction.categoryName,
                                   MegaMenuUrl))

\* The Starbucks listing crawler handles the page.
RequestHandler ==
  /\ extraction.crawler = "starbucks"
  /\ Extracted(requestHandler(extraction.page))

\* The Paik crawler extracts the products of a category page.
ExtractProductsFromPage ==
  /\ extraction.crawler = "paik"
  /\ Extracted(extractProductsFromPage(extraction.page,
                                       extraction.categoryName, PaikMenuUrl))

NextExtract ==
  \/ ExtractPageProducts
  \/ RequestHandler
  \/ ExtractProductsFromPage

SpecExtract == InitExtract /\ [][NextExtract]_vars

\* ------------------------------------------- one run of the Mega crawler
\* The site serves its listing pages in order; the next control of every
\* page but the last is enabled, and tail is the control of the last page:
\* absent, disabled, or enabled for ever (a click then shows the last page
\* again).  Every category page shows the first listing page; loadMore says
\* whether it has a "load more" button and whether clicking it works.
MaxSitePages == 2

MaxPages == 50

\* The products a listing page shows, each product once.
MegaContents ==
  {<<>>, <<[name |-> "Latte", image |-> "i1"]>>,
   <<[name |-> "Latte", image |-> "i1"], [name |-> "Mocha", image |-> "i2"]>>}

MegaPage(containers) ==
  [matches |-> [s \in Range(containerSelectors) |->
                  IF s = containerSelectors[1] THEN containers ELSE <<>>],
   links |-> <<>>]

Containers(page) == page.matches[containerSelectors[1]]

MegaCategories ==
  <<[name |-> "Coffee", value |-> "1",
     url |-> "https://www.mega-mgccoffee.com/menu/?menu_category1=1"],
    [name |-> "Tea", value |-> "2",
     url |-> "https://www.mega-mgccoffee.com/menu/?menu_category1=2"]>>

Sites ==
  {s \in [pages : UNION {[1..n -> {MegaPage(c) : c \in MegaContents}] :
                           n \in 1..MaxSitePages},
          tail : {"absent", "disabled", "enabled"},
          categories : {SubSeq(MegaCategories, 1, n) : n \in 0..2},
          loadMore : {"none", "ok", "fails"}] :
     s.categories = <<>> => s.loadMore = "none"}

\* The state of .board_page_next on listing page i of the site.
NextControl(s, i) == IF i < Len(s.pages) THEN "enabled" ELSE s.tail

\* The category page of the site, before and after "load more" is clicked:
\* the click appends the products of the last listing page not yet shown.
CategoryPage(s) == s.pages[1]

CategoryPageAfterLoadMore(s) ==
  LET first == Containers(s.pages[1])
      more == SelectSeq(Containers(s.pages[Len(s.pages)]),
                        LAMBDA e : e \notin Range(first))
  IN MegaPage(first \o more)

\* extractMenuCategories: the categories with a value, or All Menu alone.
extractMenuCategories(s) ==
  IF Len(s.categories) = 0
  THEN <<[name |-> "All Menu", value |-> "all", url |-> MegaMenuUrl]>>
  ELSE s.categories

\* The requests addRequests is given for the categories.
CategoryRequests(categories) ==
  LET cats == SelectSeq(categories, LAMBDA c : c.value # "all")
  IN [i \in 1..Len(cats) |->
        [url |-> cats[i].url, categoryName |-> cats[i].name,
         categoryValue |-> cats[i].value, isCategoryPage |-> TRUE]]

\* (Mutant: the records of a page are put in front of the dataset.)
pushDataInFront(items, pageProducts) == pageProducts \o items

\* Promise.all over pushData for the products of a page: the calls are made
\* in the order of the products and the dataset appends in call order.
pushData(items, pageProducts) == items \o pageProducts

\* (Mutant: the safety check is missing.)
ReachedPageLimitNever(n) == FALSE

\* The safety check of the pagination loop.
ReachedPageLimit(n) == n > MaxPages

InitMega ==
  /\ UploaderInit
  /\ ToolsIdle
  /\ extraction = NoExtraction
  /\ site \in Sites
  /\ pageIndex = 1
  /\ currentPage = 1
  /\ visited = <<>>
  /\ stopReason = ""
  /\ dataset = <<>>
  /\ queue = <<>>
  /\ pc = "paginating"

\* One iteration of the while loop of handleMainMenuPage, and, when the
\* iteration leaves the loop, the rest of the handler.  clickOk says whether
\* nextButton.click() returns or throws.
PaginationIteration(clickOk) ==
  LET pageProducts ==
        extractPageProducts(site.pages[pageIndex], "All Menu", MegaMenuUrl)
      next == NextControl(site, pageIndex)
      clicked == next = "enabled" /\ clickOk
      reason ==
        IF next = "absent" THEN "noNext"
        ELSE IF next = "disabled" THEN "disabled"
        ELSE IF ~clickOk THEN "clickFailed"
        ELSE IF ReachedPageLimit(currentPage + 1) THEN "limit"
        ELSE ""
      categories == extractMenuCategories(site)
  IN /\ pc = "paginating"
     /\ dataset' = pushData(dataset, pageProducts.products)
     /\ visited' = Append(visited, pageIndex)
     /\ currentPage' = IF clicked THEN currentPage + 1 ELSE currentPage
     /\ pageIndex' = IF clicked THEN Min(pageIndex + 1, Len(site.pages))
                     ELSE pageIndex
     /\ stopReason' = reason
     /\ IF reason = ""
        THEN /\ pc' = "paginating"
             /\ queue' = queue
        ELSE /\ pc' = "crawling"
             /\ queue' = IF Len(categories) > 1
                         THEN queue \o CategoryRequests(categories)
                         ELSE queue
     /\ UNCHANGED <<uploaderVars, toolVars, extraction, site>>

\* The crawler takes the next category request: handleCategoryPage.
HandleCategoryPage ==
  LET request == Head(queue)
      categoryProducts ==
        extractPageProducts(CategoryPage(site), request.categoryName,
                            request.url)
      additionalProducts ==
        extractPageProducts(CategoryPageAfterLoadMore(site),
                            request.categoryName, request.url)
      saved == pushData(dataset, categoryProducts.products)
  IN /\ pc = "crawling"
     /\ queue # <<>>
     /\ dataset' = IF site.loadMore = "ok"
                   THEN pushData(saved, additionalProducts.products)
                   ELSE saved
     /\ queue' = Tail(queue)
     /\ UNCHANGED <<uploaderVars, toolVars, extraction, site, pageIndex,
                    currentPage,
                    visited, stopReason, pc>>

\* crawler.run() returns when no request is left; the dataset is exported.
Export ==
  /\ pc = "crawling"
  /\ queue = <<>>
  /\ pc' = "done"
  /\ UNCHANGED <<uploaderVars, toolVars, extraction, site, pageIndex,
                 currentPage,
                 visited, stopReason, dataset, queue>>

NextMega ==
  \/ \E clickOk \in BOOLEAN : PaginationIteration(clickOk)
  \/ HandleCategoryPage
  \/ Export

SpecMega == InitMega /\ [][NextMega]_vars

\* The crawler keeps running its handlers until the run is over.
SpecMegaLive == SpecMega /\ WF_vars(NextMega)

\* --------------------------------------- the latest crawler output file
\* The directory holds at most MaxFiles files; their modification times are
\* distinct.
MaxFiles == 2

\* AVAILABLE_CAFES: the slug of each cafe and the prefix of its output files.
AvailableCafes == {"starbucks", "compose", "mega"}

filePattern(cafe) == cafe \o "-products-"

\* The prefixes of the files the crawlers write: the product files of the
\* three cafes and the menu file of the Starbucks listing crawler.
FilePrefixes == {filePattern(c) : c \in AvailableCafes} \cup {"starbucks-menu-"}

OutputFiles == [prefix : FilePrefixes, ext : {"json", "png"}, mtime : 1..MaxFiles]

OutputDirs ==
  {d \in SUBSET OutputFiles :
     /\ Cardinality(d) <= MaxFiles
     /\ \A f, g \in d : f.mtime = g.mtime => f = g}

\* files.sort((a, b) => b.mtime - a.mtime)[0] of a non-empty set of files.
Latest(files) == CHOOSE f \in files : \A g \in files : g.mtime <= f.mtime

\* findLatestCrawlerOutput of the upload CLI: the latest *.json file of the
\* directory; it throws when there is none.
findLatestCrawlerOutput(dir) ==
  LET files == {f \in dir : f.ext = "json"}
  IN IF files = {} THEN "thrown" ELSE Latest(files)

\* findLatestFile of the multi-cafe runner: the latest *.json file whose
\* name starts with the pattern of the cafe, or null.
findLatestFile(dir, cafePattern) ==
  LET files == {f \in dir : f.prefix = cafePattern /\ f.ext = "json"}
  IN IF files = {} THEN Null ELSE Latest(files)

InitResolve ==
  /\ UploaderInit
  /\ CrawlerIdle
  /\ outputDir \in OutputDirs
  /\ resolved = NoResolved
  /\ ClickIdle
  /\ RunnerIdle
  /\ RetryIdle
  /\ RaceIdle

\* resolveFilePath of the upload CLI, run for a cafe without --file.
ResolveFilePath(cafeSlug) ==
  /\ resolved = NoResolved
  /\ resolved' = [tool |-> "upload-products", cafe |-> cafeSlug,
                  file |-> findLatestCrawlerOutput(outputDir)]
  /\ UNCHANGED <<uploaderVars, raceVars, crawlerVars, clickVars, runnerVars,
                 retryVars,
                 outputDir>>

\* uploadCafe of the multi-cafe runner, run for a cafe without --file: the
\* file it hands to the upload CLI with --file, or a rejection.
UploadCafe(cafeName) ==
  /\ resolved = NoResolved
  /\ resolved' = [tool |-> "upload-runner", cafe |-> cafeName,
                  file |-> findLatestFile(outputDir, filePattern(cafeName))]
  /\ UNCHANGED <<uploaderVars, raceVars, crawlerVars, clickVars, runnerVars,
                 retryVars,
                 outputDir>>

NextResolve ==
  \/ \E cafeSlug \in AvailableCafes : ResolveFilePath(cafeSlug)
  \/ \E cafeName \in AvailableCafes : UploadCafe(cafeName)

SpecResolve == InitResolve /\ [][NextResolve]_vars

\* ------------------------------------- the Starbucks click-through crawler
\* The listing page shows at most MaxLinks a.goDrinkView links.
MaxLinks == 2

\* Math.min(10, productCount)
MaxProducts == 10

\* What the click on a link of the listing has done when the URL is read
\* two seconds later: opened the product's drink_view.do page ("detail"),
\* opened that page for a product without a name heading ("unnamed"),
\* opened a page that is not drink_view.do ("other"), or nothing ("stay").
LinkKinds == {"detail", "unnamed", "other", "stay"}

Listings == SeqsUpTo(LinkKinds, MaxLinks)

BlankPage == [kind |-> "blank", id |-> 0]
ListingPage == [kind |-> "listing", id |-> 0]
OtherPage == [kind |-> "other", id |-> 0]
DetailPage(i) == [kind |-> "detail", id |-> i]

\* The tab the crawler hands to the handler has loaded the listing; whether
\* the about:blank page the tab was opened with is an entry of its history
\* depends on the browser.
Browsers ==
  {[history |-> <<ListingPage>>, at |-> 1],
   [history |-> <<BlankPage, ListingPage>>, at |-> 2]}

\* page.url() is the URL of the current entry of the history.
PageAt(b) == b.history[b.at]

\* A navigation drops the forward entries and adds the page.
Navigate(b, page) ==
  [history |-> Append(SubSeq(b.history, 1, b.at), page), at |-> b.at + 1]

\* page.goBack(): the previous entry, or no navigation when there is none.
goBack(b) == IF b.at > 1 THEN [b EXCEPT !.at = @ - 1] ELSE b

\* page.evaluate clicking links[index]: only the listing has a.goDrinkView
\* links, so on any other page links[index] is undefined and nothing is
\* clicked.
Click(b, links, i) ==
  IF PageAt(b) = ListingPage /\ i <= Len(links)
  THEN CASE links[i] \in {"detail", "unnamed"} -> Navigate(b, DetailPage(i))
         [] links[i] = "other" -> Navigate(b, OtherPage)
         [] OTHER -> b
  ELSE b

\* extractProductData on a drink_view.do page: the name heading and the
\* product_cd of the URL.
extractDetailData(page, links) ==
  [name |-> IF links[page.id] = "detail" THEN "Latte" ELSE "",
   id_origin |-> page.id]

InitClick ==
  /\ UploaderInit
  /\ CrawlerIdle
  /\ ResolveIdle
  /\ RunnerIdle
  /\ RetryIdle
  /\ RaceIdle
  /\ browser \in Browsers
  /\ clickLoop \in {[NoClickLoop EXCEPT !.links = l, !.i = 1,
                                        !.pc = "looping"] : l \in Listings}

\* One iteration of the for loop of requestHandler.  fail says where the
\* try block throws: nowhere, in extractProductData, or in page.goBack()
\* (which then has not navigated); the catch logs and the loop goes on.
ClickThroughIteration(fail) ==
  LET i == clickLoop.i
      links == clickLoop.links
      clicked == Click(browser, links, i)
      after == PageAt(clicked)
      onDetail == after.kind = "detail"
      product == extractDetailData(after, links)
      pushed == onDetail /\ fail # "extract" /\ product.name # ""
  IN /\ clickLoop.pc = "looping"
     /\ i <= Min(MaxProducts, Len(links))
     /\ fail = "extract" => onDetail
     /\ browser' = IF fail = "none" THEN goBack(clicked) ELSE clicked
     /\ clickLoop' =
          [clickLoop EXCEPT
             !.i = i + 1,
             !.products = IF pushed THEN Append(@, product) ELSE @,
             !.trace = Append(@, [start |-> PageAt(browser), after |-> after,
                                  pushed |-> pushed, fail |-> fail])]
     /\ UNCHANGED <<uploaderVars, raceVars, crawlerVars, resolveVars,
                    runnerVars,
                    retryVars>>

\* After the loop the handler writes the products it has, if any.
SaveProducts ==
  /\ clickLoop.pc = "looping"
  /\ clickLoop.i > Min(MaxProducts, Len(clickLoop.links))
  /\ clickLoop' = [clickLoop EXCEPT
                     !.pc = IF Len(clickLoop.products) > 0 THEN "saved"
                            ELSE "done"]
  /\ UNCHANGED <<uploaderVars, raceVars, crawlerVars, resolveVars,
                 runnerVars, retryVars,
                 browser>>

NextClick ==
  \/ \E fail \in {"none", "extract", "goBack"} : ClickThroughIteration(fail)
  \/ SaveProducts

SpecClick == InitClick /\ [][NextClick]_vars

\* ------------------------------------------------ the crawler test suites
\* The suite tests the first MaxCrawlers crawlers of CRAWLERS, one after the
\* other.
MaxCrawlers == 3

CRAWLERS == <<"starbucks", "compose", "paik", "mega">>

CrawlersToTest == SubSeq(CRAWLERS, 1, MaxCrawlers)

\* "spawn" is the suite of crawl.test.ts, which runs each crawler as a child
\* process; "inprocess" is the suite that calls crawler.run() itself.
Runners == {"spawn", "inprocess"}

InitRunner ==
  /\ UploaderInit
  /\ CrawlerIdle
  /\ ResolveIdle
  /\ ClickIdle
  /\ RetryIdle
  /\ RaceIdle
  /\ suite \in {[NoSuite EXCEPT !.runner = r, !.index = 1, !.pc = "next"] :
                  r \in Runners}
  /\ running = {}

TestResult(name, success, error) ==
  [crawlerName |-> name, success |-> success, error |-> error]

\* The for loop takes the next crawler: runCrawlerTest spawns its process
\* and arms the timer; testCrawler calls run() and races it with the
\* timeout promise.
StartTest ==
  /\ suite.pc = "next"
  /\ suite.index <= Len(CrawlersToTest)
  /\ suite' = [suite EXCEPT !.pc = "testing"]
  /\ running' = running \cup {CrawlersToTest[suite.index]}
  /\ UNCHANGED <<uploaderVars, raceVars, crawlerVars, resolveVars, clickVars,
                 retryVars>>

\* A running crawler ends by itself, with or without an error.  When it is
\* the crawler under test the 'close' handler, or the race, settles with
\* its result and the loop goes on; a crawler that is no longer under test
\* just ends.
CrawlerExits(name, ok) ==
  LET underTest == suite.pc = "testing" /\ name = CrawlersToTest[suite.index]
  IN /\ name \in running
     /\ running' = running \ {name}
     /\ suite' = IF underTest
                 THEN [suite EXCEPT
                         !.pc = "next", !.index = @ + 1,
                         !.results = Append(@, TestResult(name, ok,
                                        IF ok THEN "" ELSE "failed"))]
                 ELSE suite
     /\ UNCHANGED <<uploaderVars, raceVars, crawlerVars, resolveVars,
                    clickVars, retryVars>>

\* The crawlers still running after the timer of the suite has fired:
\* runCrawlerTest kills the child with SIGKILL and resolves on its 'close';
\* in testCrawler the timeout promise rejects and nothing stops run().
AfterTimeout(runner, crawlers, name) ==
  IF runner = "spawn" THEN crawlers \ {name} ELSE crawlers

\* The timer fires while the crawler under test is still running.
Timeout ==
  LET name == CrawlersToTest[suite.index]
  IN /\ suite.pc = "testing"
     /\ running' = AfterTimeout(suite.runner, running, name)
     /\ suite' = [suite EXCEPT
                    !.pc = "next", !.index = @ + 1,
                    !.results = Append(@, TestResult(name, FALSE, "timeout"))]
     /\ UNCHANGED <<uploaderVars, raceVars, crawlerVars, resolveVars,
                    clickVars, retryVars>>

\* The loop is over: the summary is printed.
PrintTestSummary ==
  /\ suite.pc = "next"
  /\ suite.index > Len(CrawlersToTest)
  /\ suite' = [suite EXCEPT !.pc = "done"]
  /\ UNCHANGED <<uploaderVars, raceVars, crawlerVars, resolveVars, clickVars,
                 retryVars,
                 running>>

NextRunner ==
  \/ StartTest
  \/ \E name \in Range(CrawlersToTest), ok \in BOOLEAN : CrawlerExits(name, ok)
  \/ Timeout
  \/ PrintTestSummary

SpecRunner == InitRunner /\ [][NextRunner]_vars

\* ------------------------------------- failing requests of the Mega crawl
\* maxRequestRetries of the crawler.
MaxRequestRetries == 2

RequestUrls == {MegaMenuUrl} \cup {c.url : c \in Range(MegaCategories)}

\* A run over a site whose pagination ends by itself.
InitRetry ==
  /\ UploaderInit
  /\ ResolveIdle
  /\ ClickIdle
  /\ RunnerIdle
  /\ RaceIdle
  /\ retry = [retryCount |-> [u \in RequestUrls |-> 0], failed |-> {}]
  /\ extraction = NoExtraction
  /\ site \in {s \in Sites : s.tail # "enabled"}
  /\ pageIndex = 1
  /\ currentPage = 1
  /\ visited = <<>>
  /\ stopReason = ""
  /\ dataset = <<>>
  /\ queue = <<>>
  /\ pc = "paginating"

\* The crawler's handling of a failed attempt: the request is reclaimed
\* with retryCount + 1 while retryCount < maxRequestRetries, and marked
\* failed otherwise.
Retried(r, url) ==
  IF r.retryCount[url] < MaxRequestRetries
  THEN [r EXCEPT !.retryCount[url] = @ + 1]
  ELSE [r EXCEPT !.failed = @ \cup {url}]

\* An attempt of the main menu request fails between two iterations of the
\* pagination loop (the handler throws, or requestHandlerTimeoutSecs is
\* over).  A retry loads the page anew and starts the handler again; after
\* the last retry the request is dropped, with no category enqueued.  The
\* records pushData has appended stay in the dataset.
MainRequestFails ==
  LET r == Retried(retry, MegaMenuUrl)
  IN /\ pc = "paginating"
     /\ retry' = r
     /\ dataset' = dataset
     /\ pageIndex' = 1
     /\ currentPage' = 1
     /\ IF MegaMenuUrl \in r.failed
        THEN pc' = "crawling" /\ stopReason' = "failed"
        ELSE pc' = "paginating" /\ stopReason' = ""
     /\ UNCHANGED <<uploaderVars, raceVars, resolveVars, clickVars, runnerVars,
                    extraction, site, visited, queue>>

\* An attempt of the category request at the head of the queue fails:
\* before its handler has pushed anything (the navigation fails), or when
\* requestHandlerTimeoutSecs is over after the products of the category
\* page have been pushed.  A reclaimed request goes to the end of the queue.
CategoryRequestFails(afterPush) ==
  LET request == Head(queue)
      categoryProducts ==
        extractPageProducts(CategoryPage(site), request.categoryName,
                            request.url)
      r == Retried(retry, request.url)
  IN /\ pc = "crawling"
     /\ queue # <<>>
     /\ retry' = r
     /\ dataset' = IF afterPush
                   THEN pushData(dataset, categoryProducts.products)
                   ELSE dataset
     /\ queue' = IF request.url \in r.failed THEN Tail(queue)
                 ELSE Append(Tail(queue), request)
     /\ UNCHANGED <<uploaderVars, raceVars, resolveVars, clickVars, runnerVars,
                    extraction, site, pageIndex, currentPage, visited,
                    stopReason, pc>>

NextRetry ==
  \/ NextMega
  \/ MainRequestFails
  \/ \E afterPush \in BOOLEAN : CategoryRequestFails(afterPush)

SpecRetry == InitRetry /\ [][NextRetry]_vars

\* ----------------------------- overlapping runs of uploadProductsFromJson
\* Two clients call uploadProductsFromJson for the same cafe.  The handler
\* is a Convex mutation: it runs as one transaction on the snapshot of the
\* store it has started from, and the store commits it only if nothing the
\* run has read has been written since; otherwise the run is started again
\* on the new state of the store.
RunIds == {1, 2}

RaceCafe == "c1"

RaceRecords ==
  {BaseRecord("e1"), [BaseRecord("e1") EXCEPT !.price = Null],
   BaseRecord("e2")}

RaceBatches == SeqsUpTo(RaceRecords, 2)

\* The stores the runs may find: empty, or left by an earlier upload.
BaseBatches == {<<>>, <<BaseRecord("e1")>>, <<BaseRecord("e1"), BaseRecord("e2")>>}

NoRun ==
  [state |-> "idle", batch |-> <<>>, snapshot |-> NoBase,
   result |-> NoResults, overlapped |-> FALSE, restarted |-> FALSE]

InitRace ==
  /\ cli = NoCli
  /\ cafes = CafeIds
  /\ call = NoCall
  /\ result = NoResults
  /\ clock = 2
  /\ \E b \in BaseBatches :
       LET r == uploadProductsFromJson(CafeIds, <<>>, <<>>, b, RaceCafe,
                                       FALSE, FALSE, 1)
       IN /\ products = r.products
          /\ scheduled = r.scheduled
          /\ base = [products |-> r.products, scheduled |-> r.scheduled,
                     clock |-> 2]
  /\ runs = [id \in RunIds |-> NoRun]
  /\ CrawlerIdle
  /\ ResolveIdle
  /\ ClickIdle
  /\ RunnerIdle
  /\ RetryIdle

Snapshot == [products |-> products, scheduled |-> scheduled, clock |-> clock]

\* A client calls the mutation: the run starts on the current store.
Begin(id, batch) ==
  LET others == {o \in RunIds \ {id} : runs[o].state = "running"}
  IN /\ runs[id].state = "idle"
     /\ runs' = [o \in RunIds |->
                   IF o = id
                   THEN [NoRun EXCEPT !.state = "running", !.batch = batch,
                                      !.snapshot = Snapshot,
                                      !.overlapped = others # {}]
                   ELSE IF o \in others
                   THEN [runs[o] EXCEPT !.overlapped = TRUE]
                   ELSE runs[o]]
     /\ UNCHANGED <<uploaderVars, base, crawlerVars, resolveVars, clickVars,
                    runnerVars, retryVars>>

\* (Mutant: the store commits a run whatever has been written meanwhile.)
ConflictsNever(run) == FALSE

\* The products of the cafe and the scheduler queue, which every run reads,
\* have been written since the run started.
Conflicts(run) ==
  \/ run.snapshot.products # products
  \/ run.snapshot.scheduled # scheduled

\* The store finds a conflict and runs the handler again.
Restart(id) ==
  /\ runs[id].state = "running"
  /\ Conflicts(runs[id])
  /\ runs' = [runs EXCEPT ![id].snapshot = Snapshot, ![id].restarted = TRUE]
  /\ UNCHANGED <<uploaderVars, base, crawlerVars, resolveVars, clickVars,
                 runnerVars, retryVars>>

\* The run ends and the store commits what it has written.
Commit(id) ==
  LET run == runs[id]
      r == uploadProductsFromJson(cafes, run.snapshot.products,
                                  run.snapshot.scheduled, run.batch, RaceCafe,
                                  FALSE, FALSE, clock)
  IN /\ run.state = "running"
     /\ ~Conflicts(run)
     /\ products' = r.products
     /\ scheduled' = r.scheduled
     /\ clock' = clock + 1
     /\ runs' = [runs EXCEPT ![id].state = "committed",
                             ![id].result = r.result]
     /\ UNCHANGED <<cafes, call, result, cli, base, crawlerVars, resolveVars,
                    clickVars, runnerVars, retryVars>>

NextRace ==
  \/ \E id \in RunIds, batch \in RaceBatches : Begin(id, batch)
  \/ \E id \in RunIds : Restart(id)
  \/ \E id \in RunIds : Commit(id)

SpecRace == InitRace /\ [][NextRace]_vars

\* ------------------------------------------------------------------ claims
IsUpload(c) == c.op = "uploadProductsFromJson"


\* The records of a batch are objects that pass the validator and carry
\* pairwise distinct externalIds, as the records of a crawl output do.
CleanBatch(batch) ==
  /\ \A i \in 1..Len(batch) :
       batch[i].kind = "object" /\ ArgsValid(BuildArgs(batch[i], "c1", FALSE))
  /\ \A i, j \in 1..Len(batch) :
       batch[i].externalId = batch[j].externalId => i = j

\* C1: reconciling the same batch for the same cafe twice in a row reports
\* created = 0, updated = 0, removed = 0 and reactivated = 0 on the second
\* pass, with every record counted as unchanged.  (Stated for the batches a
\* crawl writes: valid records with distinct externalIds.)
C1_SecondPassUnchanged ==
  [][(/\ IsUpload(call) /\ ~call.dryRun /\ result.status = "ok"
      /\ CleanBatch(call.products)
      /\ call' = call /\ clock' = clock + 1)
     => (/\ result'.status = "ok"
         /\ result'.created = 0 /\ result'.updated = 0
         /\ result'.removed = 0 /\ result'.reactivated = 0
         /\ result'.unchanged = Len(call.products))]_vars

\* Some crawled field of the record differs from the stored document.
PayloadDiffers(doc, product) ==
  \/ doc.name # product.name
  \/ doc.nameEn # Nullish(product.nameEn)
  \/ doc.category # Nullish(product.category)
  \/ doc.externalCategory # Nullish(product.externalCategory)
  \/ doc.description # Nullish(product.description)
  \/ doc.externalImageUrl # Nullish(product.externalImageUrl)
  \/ doc.externalUrl # product.externalUrl
  \/ doc.price # Nullish(product.price)

\* C2: for an upsert of a record whose product already exists, updatedAt of
\* the stored product changes if and only if some observable field of the
\* payload differs from the stored version; an identical payload is
\* counted unchanged and writes nothing, a differing one is counted updated
\* once.
C2_UpdatedAtIffDiffers ==
  [][(/\ call'.op = "upsertProduct" /\ result'.status = "ok"
      /\ result'.created = 0)
     => LET ex == call'.productId
            differs == PayloadDiffers(products[ex], call'.products[1])
        IN /\ (products'[ex].updatedAt # products[ex].updatedAt) <=> differs
           /\ differs => result'.updated = 1
           /\ ~differs => (result'.unchanged = 1 /\ products' = products)]_vars

\* The externalIds that occur in a batch.
BatchIds(batch) == {e \in ExternalIds : \E k \in 1..Len(batch) : batch[k].externalId = e}

C4_OtherCafeUntouched ==
  [][(IsUpload(call') /\ clock' = clock + 1)
     => \A i \in 1..Len(products) :
          products[i].cafeId # call'.cafeSlug
          => (Len(products') >= i /\ products'[i] = products[i])]_vars

\* C5: in every reachable store state there is at most one StoredProduct
\* per (cafeId, externalId).
C5_UniquePerCafe ==
  \A i, j \in 1..Len(products) :
    (/\ products[i].cafeId = products[j].cafeId
     /\ products[i].externalId = products[j].externalId)
    => i = j

\* A completed run whose batch held one externalId twice, with products in
\* both cafes.
C5_Witness ==
  /\ IsUpload(call) /\ ~call.dryRun /\ result.status = "ok"
  /\ \E i, j \in 1..Len(call.products) :
       i < j /\ call.products[i].externalId = call.products[j].externalId
  /\ result.created + result.updated >= 1
  /\ \E i, j \in 1..Len(products) : products[i].cafeId # products[j].cafeId

\* C6: a reconcile call with dryRun = true inserts, patches, deactivates or
\* reactivates no cafe or product and schedules no image download.
C6_DryRunNoSideEffects ==
  [][(IsUpload(call') /\ call'.dryRun /\ clock' = clock + 1)
     => (products' = products /\ scheduled' = scheduled /\ cafes' = cafes)]_vars

\* A dry run, with image download requested, of a batch that a real run
\* would create a product from and remove a product for.
C6_Witness ==
  /\ IsUpload(call) /\ call.dryRun /\ call.downloadImages
  /\ result.status = "ok"
  /\ \E i \in 1..Len(call.products) :
       /\ call.products[i].kind = "object"
       /\ ArgsValid(BuildArgs(call.products[i], call.cafeSlug, TRUE))
       /\ FirstByExternalId(products, call.products[i].externalId) = 0
  /\ \E i \in 1..Len(products) :
       /\ products[i].cafeId = call.cafeSlug /\ products[i].isActive
       /\ products[i].externalId \notin BatchIds(call.products)

\* C7: with dryRun = true the returned created and updated equal the values
\* a real reconcile of the same batch against the same store would report.
C7_DryRunCountsWouldBe ==
  [][(/\ IsUpload(call') /\ call'.dryRun /\ result'.status = "ok"
      /\ clock' = clock + 1)
     => LET real == uploadProductsFromJson(cafes, products, scheduled,
                      call'.products, call'.cafeSlug, FALSE,
                      call'.downloadImages, clock).result
        IN real.status = "ok"
           => (/\ result'.created = real.created
               /\ result'.updated = real.updated)]_vars

\* C8: a failure while upserting one record is appended to the error list
\* and never thrown past the batch: the run of an existing cafe completes
\* and created + updated + unchanged + errors = number of records.
C8_FailuresStayInBatch ==
  (IsUpload(call) /\ ~call.dryRun /\ call.cafeSlug \in cafes)
  => (/\ result.status = "ok"
      /\ result.created + result.updated + result.unchanged
           + Len(result.errors) = Len(call.products))

\* C9: the result of a reconcile reports processed = created + updated +
\* unchanged + failed records.
C9_ProcessedCount ==
  (IsUpload(call) /\ result.status = "ok")
  => result.processed = result.created + result.updated + result.unchanged
                          + Len(result.errors)

C13_ExitCode ==
  call.op = "main"
  => (cli.exitCode = 0 <=> (result.status = "ok" /\ Len(result.errors) = 0))

\* C14: a failure to fetch or store a product's image never fails or undoes
\* the product upsert: the product stays stored with its crawled fields and
\* externalImageUrl unchanged, and no imageStorageId is recorded for it.
C14_ImageFailureKeepsProduct ==
  [][(/\ call'.op = "downloadAndStoreImage" /\ result'.status = "failed")
     => (/\ products' = products
         /\ products'[call'.productId].imageStorageId
              = products[call'.productId].imageStorageId)]_vars

\* A failed download of the image that the upsert of a new product had
\* scheduled: the product is stored, with its external URL and no storage id.
C14_Witness ==
  /\ call.op = "downloadAndStoreImage" /\ result.status = "failed"
  /\ \E k \in 1..Len(scheduled) : scheduled[k].productId = call.productId
  /\ products[call.productId].externalImageUrl = "img1"
  /\ products[call.productId].imageStorageId = Undefined

\* C16: every record emitted by an extraction pass, whichever selector or
\* fallback path produced it, has a name that is non-empty, at most 100
\* characters long and free of the denylisted UI-chrome substrings.
C16_EmittedNamesValid ==
  extraction.done
  => \A i \in 1..Len(extraction.products) :
       LET name == extraction.products[i].name
       IN /\ name # ""
          /\ Len(name) <= MaxNameLength
          /\ \A t \in StarbucksDenylist : ~Includes(name, t)

\* C17: container selectors are tried in a fixed priority order and the
\* first selector with at least one match is the only one used; when no
\* selector matches, the pass returns an empty list.
C17_FirstMatchingSelectorOnly ==
  (extraction.done /\ extraction.crawler \in {"mega", "starbucks"})
  => LET selectors == IF extraction.crawler = "mega"
                      THEN containerSelectors ELSE possibleSelectors
         k == FirstMatch(selectors, extraction.page)
     IN IF k = 0
        THEN extraction.products = <<>>
        ELSE /\ extraction.usedSelector = selectors[k]
             /\ \A i \in 1..Len(extraction.products) :
                  \E e \in Range(extraction.page.matches[selectors[k]]) :
                    e.name = extraction.products[i].name

\* C18: within one page's extraction pass the externalId values of the
\* returned records are unique, and the record kept for a duplicated
\* externalId is the last one seen.
C18_UniqueLastSeenWins ==
  (extraction.done /\ extraction.crawler \in {"mega", "paik"})
  => LET ps == extraction.products
     IN /\ \A i, j \in 1..Len(ps) :
             ps[i].externalId = ps[j].externalId => i = j
        /\ \A i \in 1..Len(ps) :
             LET containers == extraction.page.matches[extraction.usedSelector]
                 same == {m \in 1..Len(containers) :
                            containers[m].name = ps[i].name}
                 last == CHOOSE m \in same : \A n \in same : n <= m
             IN ps[i].externalImageUrl = containers[last].image

\* The names of the products a listing page shows, in DOM order.
DomNames(page) ==
  LET cs == SelectSeq(Containers(page), LAMBDA e : e.name # "")
  IN [i \in 1..Len(cs) |-> cs[i].name]

\* The names expected in the dataset after the listing pages visited so far.
ExpectedNames == Concat([k \in 1..Len(visited) |-> DomNames(site.pages[visited[k]])])

\* C15: for every sequence of listing pages, also when the next control
\* never disappears, the pagination loop terminates; when it stops at an
\* absent or disabled next control it has extracted that last page; and it
\* never extracts more than 50 pages.
C15_PaginationTerminates ==
  /\ <>(pc # "paginating")
  /\ [](Len(visited) <= MaxPages)
  /\ [](stopReason \in {"noNext", "disabled"}
        => /\ visited # <<>>
           /\ visited[Len(visited)] = Len(site.pages)
           /\ site.tail \in {"absent", "disabled"})

\* The loop was stopped by the page limit on a site whose next control
\* stays enabled.
C15_Witness ==
  /\ stopReason = "limit" /\ site.tail = "enabled"
  /\ Len(visited) = MaxPages /\ pc = "done"

\* C19: among the records collected by one crawl run, across listing pages,
\* category pages and load-more rounds, no two carry the same externalId.
C19_ExternalIdUniqueInRun ==
  \A i, j \in 1..Len(dataset) :
    dataset[i].externalId = dataset[j].externalId => i = j

C24_AddedAtPreserved ==
  [][/\ Len(products') >= Len(products)
     /\ \A i \in 1..Len(products) :
          products'[i].addedAt = products[i].addedAt
     /\ \A i \in (Len(products) + 1)..Len(products') :
          products'[i].addedAt = clock]_vars

\* An upsert has just updated a product that was inserted earlier.
C24_Witness ==
  /\ call.op = "upsertProduct" /\ result.updated = 1
  /\ products[call.productId].updatedAt = clock - 1
  /\ products[call.productId].addedAt < clock - 1

\* C28: after downloadAndStoreImage has stored an image for a product,
\* upserting the same crawled payload for that product again is counted as
\* unchanged and writes nothing.
C28_UnchangedAfterImageStored ==
  [][(/\ call'.op = "upsertProduct" /\ result'.status = "ok"
      /\ result'.created = 0
      /\ Truthy(products[call'.productId].imageStorageId)
      /\ ~PayloadDiffers(products[call'.productId], call'.products[1]))
     => (result'.unchanged = 1 /\ products' = products)]_vars

\* C29: an upsert that updates the crawled fields of an existing product
\* leaves the imageStorageId of every stored product as it was.
C29_UpdateKeepsImageStorageId ==
  [][(call'.op = "upsertProduct" \/ IsUpload(call'))
     => \A i \in 1..Len(products) :
          products'[i].imageStorageId = products[i].imageStorageId]_vars

\* An upsert has just updated a product that has a stored image.
C29_Witness ==
  /\ call.op = "upsertProduct" /\ result.updated = 1
  /\ products[call.productId].imageStorageId \in StorageIds
  /\ products[call.productId].updatedAt = clock - 1

\* C23: when no --file is given, the file the uploader reconciles is the
\* most recently modified JSON file of the output directory that matches
\* the cafe being uploaded, never a file produced for another cafe.
C23_LatestFileOfTheCafe ==
  (resolved.tool # "none" /\ resolved.file \in OutputFiles)
  => /\ resolved.file \in outputDir
     /\ resolved.file.ext = "json"
     /\ resolved.file.prefix = filePattern(resolved.cafe)
     /\ \A f \in outputDir :
          (f.ext = "json" /\ f.prefix = filePattern(resolved.cafe))
          => f.mtime <= resolved.file.mtime

\* C25: in the click-through crawler, when the URL after the click on a
\* link of the listing is not a detail page, the click is a no-op: the index
\* gets no record and the driver is on the listing page when the loop
\* proceeds to the next index.
C25_FailedClickIsNoOp ==
  \A k \in 1..Len(clickLoop.trace) :
    LET t == clickLoop.trace[k]
        next == IF k < Len(clickLoop.trace) THEN clickLoop.trace[k + 1].start
                ELSE PageAt(browser)
    IN (t.start = ListingPage /\ t.after.kind # "detail" /\ t.fail = "none")
       => (~t.pushed /\ next = ListingPage)

\* C30: in the click-through crawler every iteration of the loop starts on
\* the listing page, also after an iteration that failed on a detail page,
\* and no detail page is extracted for two different indices.
C30_IterationsStartOnListing ==
  /\ \A k \in 1..Len(clickLoop.trace) :
       clickLoop.trace[k].start = ListingPage
  /\ \A j, k \in 1..Len(clickLoop.trace) :
       (/\ clickLoop.trace[j].pushed /\ clickLoop.trace[k].pushed
        /\ clickLoop.trace[j].after = clickLoop.trace[k].after) => j = k
  /\ Len(clickLoop.products) <= Len(clickLoop.trace)

\* C21: a crawler whose run exceeded the wall-clock budget of the suite has
\* been terminated when the suite goes on: it is not running while a later
\* crawler is started or tested.
C21_TimedOutCrawlerTerminated ==
  \A k \in 1..Len(suite.results) :
    suite.results[k].error = "timeout"
    => suite.results[k].crawlerName \notin running

\* C27: when the main menu handler of the Mega crawler has discovered at
\* least one category it queues exactly one request per discovered category,
\* in order; when it has discovered none it queues nothing and the listing
\* is processed as the category "All Menu".
C27_OneRequestPerCategory ==
  [][(pc = "paginating" /\ pc' = "crawling")
     => IF Len(site.categories) >= 1
        THEN /\ Len(queue') = Len(site.categories)
             /\ \A i \in 1..Len(queue') :
                  /\ queue'[i].categoryValue = site.categories[i].value
                  /\ queue'[i].url = site.categories[i].url
        ELSE /\ queue' = <<>>
             /\ \A i \in 1..Len(dataset') :
                  dataset'[i].externalCategory = "All Menu"]_vars

\* C26: a request of the crawl that has used up its retries contributes no
\* product to the run: the output collection holds no record extracted from
\* the page of a failed request.
C26_FailedPageContributesNothing ==
  \A u \in retry.failed :
    \A i \in 1..Len(dataset) : dataset[i].externalUrl # u

\* The store and the results of running the two batches one after the
\* other from the base store, first then second.
SerialRuns(first, second) ==
  LET r1 == uploadProductsFromJson(cafes, base.products, base.scheduled,
                                   runs[first].batch, RaceCafe, FALSE, FALSE,
                                   base.clock)
      r2 == uploadProductsFromJson(cafes, r1.products, r1.scheduled,
                                   runs[second].batch, RaceCafe, FALSE, FALSE,
                                   base.clock + 1)
  IN [products |-> r2.products, scheduled |-> r2.scheduled,
      results |-> [id \in RunIds |-> IF id = first THEN r1.result
                                     ELSE r2.result]]

IsSerialOutcome(s) ==
  /\ products = s.products
  /\ scheduled = s.scheduled
  /\ \A id \in RunIds : runs[id].result = s.results[id]

BothCommitted ==
  /\ DOMAIN runs = RunIds
  /\ \A id \in RunIds : runs[id].state = "committed"

====
